---- MODULE Spec2Model ----
(***************************************************************************)
(* Poll-and-notify monitors of streamdeck-gui-ng:                          *)
(*   AlertManagerPlugin (plugins/alertmanager/alertmanager_plugin.py) and  *)
(*   ArchUpdatePlugin   (plugins/arch_update/arch_update_plugin.py).       *)
(* One behaviour runs one plugin instance.  The host calls the plugin's    *)
(* callbacks serially, so every callback is one atomic action.  The host   *)
(* side (log, update_image_render, request_page_switch) is assumed to      *)
(* deliver and return, but for a call that raises inside the try block of  *)
(* _check_updates; what the host received is kept in display and last.     *)
(* Time is the integer reading of time.time().                             *)
(***************************************************************************)
EXTENDS Integers, Sequences, FiniteSets, TLC

VARIABLES
    plugin,   \* which plugin this instance is: "alert" or "arch"
    pc,       \* "constructed" (after __init__) or "running" (after on_start)
    clock,    \* what time.time() returns now
    am,       \* fields of the AlertManagerPlugin instance
    au,       \* fields of the ArchUpdatePlugin instance
    display,  \* the rendering the host last received (update_image_render)
    op,       \* the last step: the callback the host made, or "time" when the
              \* clock advanced instead
    last,     \* what that callback was given and what it sent to the host
    hist      \* history: last count of a poll without failure, failure streak,
              \* number of configuration updates made

vars == <<plugin, pc, clock, am, au, display, op, last, hist>>

-----------------------------------------------------------------------------
(* Bounds *)

MaxAlerts == 2      \* longest alert list a response carries
MaxSub == 1         \* most updates one sub-source reports
MaxInterval == 2    \* largest configured interval or duration (seconds)
MaxPollDelay == 1   \* longest time a query of the source takes
Horizon == 2        \* how far the clock runs past its first reading
MaxReconfig == 1    \* most configuration updates the host sends
MaxShown == 6       \* largest alert count a rendering is made of

Epoch == MaxInterval + 1      \* first reading of time.time(): the timestamps
                              \* initialised to 0 are older than any interval
MaxTime == Epoch + Horizon

Intervals == 1..MaxInterval
\* one key of a configuration dict: missing, or present with a value
ConfigKey(values) ==
    {[has |-> FALSE, v |-> 0]} \cup {[has |-> TRUE, v |-> x] : x \in values}

Max(a, b) == IF a >= b THEN a ELSE b

-----------------------------------------------------------------------------
(* Inputs *)

AlertStates == {"active", "suppressed"}

AlertLists == UNION {[1..n -> AlertStates] : n \in 0..MaxAlerts}

FailureKinds == {"unreachable", "timeout", "malformed"}

\* outcome of requests.get + raise_for_status + json
Responses ==
    {[kind |-> "ok", alerts |-> a] : a \in AlertLists}
      \cup {[kind |-> k, alerts |-> <<>>] : k \in FailureKinds}


SubFailures == {"timeout", "notfound", "error"}

\* outcome of one subprocess.run of a check command: n counted lines, or the
\* exception it raised
SubOutcomes ==
    {[kind |-> "ok", n |-> n] : n \in 0..MaxSub}
      \cup {[kind |-> k, n |-> 0] : k \in SubFailures}

NotRun == [kind |-> "notrun", n |-> 0]

-----------------------------------------------------------------------------
(* AlertManagerPlugin *)

RECURSIVE CountActive(_)
CountActive(alerts) ==
    IF alerts = <<>> THEN 0
    ELSE (IF Head(alerts) = "active" THEN 1 ELSE 0) + CountActive(Tail(alerts))

\* the fields after __init__; the two intervals are in the model's seconds
AM_Init ==
    [ poll_interval      |-> 1,
      flash_duration     |-> 1,
      last_alert_count   |-> 0,
      current_alert_count|-> 0,
      last_poll_time     |-> 0,
      is_flashing        |-> FALSE,
      flash_state        |-> FALSE,
      flash_start_time   |-> 0,
      auth_type          |-> "none",
      bearer_token       |-> "None" ]

AM_Construct(pi, fd) ==
    [AM_Init EXCEPT !.poll_interval = pi, !.flash_duration = fd]

\* __init__ given a configuration with bearer authentication
AM_Authenticated(self) ==
    [self EXCEPT !.auth_type = "bearer", !.bearer_token = "token"]

\* a slip: five alerts are still shown in orange
AM_Display_Late5(self) ==
    IF self.is_flashing /\ self.flash_state
    THEN [view |-> "new", count |-> 0, bg |-> "#FF0000"]
    ELSE [view |-> "count",
          count |-> self.current_alert_count,
          bg |-> IF self.current_alert_count > 0
                 THEN (IF self.current_alert_count > 5 THEN "#FF4500"
                                                       ELSE "#FFA500")
                 ELSE "#2E7D32"]

\* _update_display: what is pushed to the host
AM_Display(self) ==
    IF self.is_flashing /\ self.flash_state
    THEN [view |-> "new", count |-> 0, bg |-> "#FF0000"]
    ELSE [view |-> "count",
          count |-> self.current_alert_count,
          bg |-> IF self.current_alert_count > 0
                 THEN (IF self.current_alert_count >= 5 THEN "#FF4500"
                                                        ELSE "#FFA500")
                 ELSE "#2E7D32"]

\* a slip: an unchanged count is taken for new alerts
NewAlerts_OrEqual(cur, prev) == cur >= prev /\ prev > 0

NewAlerts(cur, prev) == cur > prev /\ prev > 0

\* a slip: the page switch is requested for the poll interval
AM_PageSwitch_PollInterval(self, isNew) ==
    IF isNew THEN <<self.poll_interval>> ELSE <<>>

AM_PageSwitch(self, isNew) ==
    IF isNew THEN <<self.flash_duration>> ELSE <<>>

\* a slip: the count is recorded in the else branch of the new-alerts test
AM_RecordCount_Else(self, isNew) ==
    IF isNew THEN self
    ELSE [self EXCEPT !.last_alert_count = self.current_alert_count]

AM_RecordCount(self, isNew) ==
    [self EXCEPT !.last_alert_count = self.current_alert_count]

\* a slip: the poll waits one reading longer than the interval
Due_Strict(now, lastAt, interval) == now - lastAt > interval

\* the interval test of update
Due(now, lastAt, interval) == now - lastAt >= interval

\* a slip: a flash that is running keeps its start time
AM_StartFlash_KeepWindow(self, t) ==
    [self EXCEPT !.is_flashing = TRUE,
                 !.flash_start_time = IF self.is_flashing THEN @ ELSE t,
                 !.flash_state = TRUE]

\* "Start flashing" of _poll_alertmanager
AM_StartFlash(self, t) ==
    [self EXCEPT !.is_flashing = TRUE,
                 !.flash_start_time = t,
                 !.flash_state = TRUE]

\* a slip: the flash lasts one reading longer
FlashExpired_Late(now, start, dur) == now - start > dur

FlashExpired(now, start, dur) == now - start >= dur

\* _poll_alertmanager; t is the reading of time.time() when flashing starts
AM_Poll(self, resp, t) ==
    IF resp.kind = "ok"
    THEN LET cur   == CountActive(resp.alerts)
             s1    == [self EXCEPT !.current_alert_count = cur]
             isNew == NewAlerts(cur, self.last_alert_count)
             s2    == IF isNew THEN AM_StartFlash(s1, t) ELSE s1
         IN  [ self      |-> AM_RecordCount(s2, isNew),
               requests  |-> AM_PageSwitch(self, isNew),
               logs      |-> {"DEBUG"} \cup (IF isNew THEN {"WARNING"} ELSE {}),
               activated |-> isNew,
               count     |-> cur,
               result    |-> "ok" ]
    ELSE [ self      |-> self,
           requests  |-> <<>>,
           logs      |-> {"ERROR"},
           activated |-> FALSE,
           count     |-> -1,
           result    |-> "fail" ]

\* what a callback that makes no poll reports in place of AM_Poll's result
AM_NoPoll(self) ==
    [ self |-> self, requests |-> <<>>, logs |-> {}, activated |-> FALSE,
      count |-> -1, result |-> "none" ]

\* the "Handle flashing" block of update
AM_Flash(self, now) ==
    IF self.is_flashing
    THEN [self EXCEPT
            !.is_flashing = ~FlashExpired(now, self.flash_start_time,
                                          self.flash_duration),
            !.flash_state = ~self.flash_state]
    ELSE self

\* history kept after a poll p (of either plugin)
Hist(p) ==
    IF p.result = "ok" THEN [hist EXCEPT !.good = p.count, !.failing = FALSE]
    ELSE IF p.result = "fail" THEN [hist EXCEPT !.failing = TRUE]
    ELSE hist

Reconfigured(h) == [h EXCEPT !.reconfigs = h.reconfigs + 1]

\* record of one callback; result is "none" when it made no poll.  config is
\* <<>> or holds the dict given to on_config_update; failed and missing are the
\* update sources whose command failed, and was not found; flashing is
\* is_flashing when the callback began.
Last(result, count, activated, launch, requests, logs) ==
    [ result |-> result, count |-> count, activated |-> activated,
      launch |-> launch, requests |-> requests, logs |-> logs,
      config |-> <<>>, failed |-> {}, missing |-> {}, flashing |-> FALSE ]

NoPoll == Last("none", -1, FALSE, "none", <<>>, {})

AM_on_start ==
    /\ plugin = "alert" /\ pc = "constructed"
    /\ op' = "on_start"
    /\ pc' = "running"
    /\ display' = AM_Display(am)
    /\ last' = [NoPoll EXCEPT !.logs = {"INFO"}]
    /\ UNCHANGED <<plugin, clock, am, au, hist>>

AM_update ==
    /\ plugin = "alert" /\ pc = "running"
    /\ op' = "update"
    /\ LET now == clock
           due == Due(now, am.last_poll_time, am.poll_interval)
       IN \E d \in (IF due THEN 0..MaxPollDelay ELSE {0}) :
          /\ now + d <= MaxTime
          /\ \E p \in (IF due THEN {AM_Poll(am, resp, now + d) : resp \in Responses}
                              ELSE {AM_NoPoll(am)}) :
             \E s1 \in {IF due THEN [p.self EXCEPT !.last_poll_time = now]
                               ELSE am} :
             \E s2 \in {AM_Flash(s1, now)} :
                /\ clock' = now + d
                /\ am' = s2
                /\ display' = IF s1.is_flashing THEN AM_Display(s2) ELSE display
                /\ last' = [Last(p.result, p.count, p.activated, "none",
                                 p.requests,
                                 p.logs \cup (IF s1.is_flashing /\ ~s2.is_flashing
                                              THEN {"INFO"} ELSE {}))
                              EXCEPT !.flashing = am.is_flashing]
                /\ hist' = Hist(p)
    /\ UNCHANGED <<plugin, pc, au>>

AM_on_button_pressed ==
    /\ plugin = "alert" /\ pc = "running"
    /\ op' = "on_button_pressed"
    /\ \E launch \in {"ok", "fail"} :
         /\ am' = IF launch = "ok" THEN [am EXCEPT !.is_flashing = FALSE] ELSE am
         /\ display' = IF launch = "ok" /\ am.is_flashing
                       THEN AM_Display(am') ELSE display
         /\ last' = [NoPoll EXCEPT
                       !.launch = launch,
                       !.logs = {"INFO"} \cup
                                (IF launch = "fail" THEN {"ERROR"} ELSE {}),
                       !.flashing = am.is_flashing]
    /\ UNCHANGED <<plugin, pc, clock, au, hist>>

AM_on_button_visible ==
    /\ plugin = "alert" /\ pc = "running"
    /\ op' = "on_button_visible"
    /\ display' = AM_Display(am)
    /\ last' = [NoPoll EXCEPT !.logs = {"INFO"}]
    /\ UNCHANGED <<plugin, pc, clock, am, au, hist>>

ConfigGet(key, default) == IF key.has THEN key.v ELSE default

NoKey == [has |-> FALSE, v |-> 0]

\* the new configurations the host sends: no key, or one key
AM_NoKeys ==
    [ poll_interval |-> NoKey, flash_duration |-> NoKey,
      auth_type |-> NoKey, bearer_token |-> NoKey ]

AM_Configs ==
    {AM_NoKeys}
      \cup {[AM_NoKeys EXCEPT !.poll_interval = k] : k \in ConfigKey(Intervals)}
      \cup {[AM_NoKeys EXCEPT !.flash_duration = k] : k \in ConfigKey(Intervals)}
      \cup {[AM_NoKeys EXCEPT !.auth_type = k] : k \in ConfigKey({"bearer"})}
      \cup {[AM_NoKeys EXCEPT !.bearer_token = k] : k \in ConfigKey({"token"})}

AM_on_config_update ==
    /\ plugin = "alert" /\ pc = "running"
    /\ op' = "on_config_update"
    /\ hist.reconfigs < MaxReconfig
    /\ \E config \in AM_Configs, d \in 0..MaxPollDelay :
         /\ clock + d <= MaxTime
         /\ \E s0 \in {[am EXCEPT
                 !.poll_interval  = ConfigGet(config.poll_interval,
                                              am.poll_interval),
                 !.flash_duration = ConfigGet(config.flash_duration,
                                              am.flash_duration),
                 !.auth_type      = ConfigGet(config.auth_type, "none"),
                 !.bearer_token   = ConfigGet(config.bearer_token, "None")]} :
            \E p \in {AM_Poll(s0, resp, clock + d) : resp \in Responses} :
             /\ clock' = clock + d
             /\ am' = p.self
             /\ display' = AM_Display(p.self)
             /\ last' = [Last(p.result, p.count,
                              p.activated, "none", p.requests,
                              {"INFO"} \cup p.logs)
                           EXCEPT !.config = <<config>>,
                                  !.flashing = am.is_flashing]
             /\ hist' = Reconfigured(Hist(p))
    /\ UNCHANGED <<plugin, pc, au>>

-----------------------------------------------------------------------------
(* ArchUpdatePlugin *)

\* the fields after __init__ with the default booleans; the two intervals are
\* in the model's seconds, aur_check_command is "a command is configured"
AU_Init ==
    [ check_interval       |-> 1,
      notify_on_updates    |-> TRUE,
      notify_duration      |-> 1,
      aur_check_command    |-> FALSE,   \* TRUE: a command is configured
      flatpak_check        |-> FALSE,
      last_check_time      |-> 0,
      last_update_count    |-> -1,
      current_update_count |-> 0,
      pacman_updates       |-> 0,
      aur_updates          |-> 0,
      flatpak_updates      |-> 0,
      check_error          |-> "None",
      is_checking          |-> FALSE ]

\* __init__ with the intervals configured and the other keys at their defaults
AU_Construct(ci, nd) ==
    [AU_Init EXCEPT !.check_interval = ci, !.notify_duration = nd]

\* a slip: a failed command is reported as -1
SubCount_Negative(o) == IF o.kind = "ok" THEN o.n ELSE -1

\* _check_pacman, _check_aur, _check_flatpak: the count returned
SubCount(o) == IF o.kind = "ok" THEN o.n ELSE 0

\* log levels of the three checkers
PacmanLogs(o) == IF o.kind \in SubFailures THEN {"ERROR"} ELSE {}

AurLogs(o) == IF o.kind \in SubFailures THEN {"ERROR"} ELSE {}

FlatpakLogs(o) ==
    IF o.kind = "notfound" THEN {"WARNING"}
    ELSE IF o.kind \in SubFailures THEN {"ERROR"} ELSE {}

\* a slip: the breakdown names every source, also those without updates
AU_Parts_All(self) ==
    << <<"P", self.pacman_updates>>, <<"A", self.aur_updates>>,
       <<"F", self.flatpak_updates>> >>

\* parts of _update_display
AU_Parts(self) ==
    (IF self.pacman_updates > 0 THEN <<<<"P", self.pacman_updates>>>> ELSE <<>>)
      \o (IF self.aur_updates > 0 THEN <<<<"A", self.aur_updates>>>> ELSE <<>>)
      \o (IF self.flatpak_updates > 0 THEN <<<<"F", self.flatpak_updates>>>>
                                      ELSE <<>>)

AU_Blank(view, bg) == [view |-> view, count |-> 0, bg |-> bg, parts |-> <<>>]

AU_Display(self) ==
    IF self.is_checking THEN AU_Blank("checking", "#555555")
    ELSE IF self.check_error # "None" THEN AU_Blank("error", "#AA0000")
    ELSE IF self.last_update_count < 0 THEN AU_Blank("starting", "#555555")
    ELSE IF self.current_update_count = 0 THEN AU_Blank("count", "#2E7D32")
    ELSE [ view  |-> "count",
           count |-> self.current_update_count,
           bg    |-> IF self.current_update_count >= 20 THEN "#D32F2F"
                     ELSE IF self.current_update_count >= 10 THEN "#F57C00"
                     ELSE "#1976D2",
           parts |-> IF Len(AU_Parts(self)) > 1 THEN AU_Parts(self) ELSE <<>> ]

NewUpdates(cur, prev) == prev >= 0 /\ cur > prev /\ cur > 0

AU_PageSwitch(self, isNew) ==
    IF isNew /\ self.notify_on_updates THEN <<self.notify_duration>> ELSE <<>>

\* a slip: the check forgets to clear is_checking
AU_Finally_Forget(self) == self

AU_Finally(self) == [self EXCEPT !.is_checking = FALSE]

\* the sources whose command ended in one of kinds (a source that is switched
\* off has the outcome NotRun)
AU_Failed(po, ao, fo, kinds) ==
    (IF po.kind \in kinds THEN {"pacman"} ELSE {})
      \cup (IF ao.kind \in kinds THEN {"aur"} ELSE {})
      \cup (IF fo.kind \in kinds THEN {"flatpak"} ELSE {})

\* a slip: check_error is not cleared when the check begins
AU_CheckUpdates_KeepError(self, po, ao, fo) ==
    LET pacman  == SubCount(po)
        aur     == IF self.aur_check_command THEN SubCount(ao) ELSE 0
        flatpak == IF self.flatpak_check THEN SubCount(fo) ELSE 0
        cur     == pacman + aur + flatpak
        isNew   == NewUpdates(cur, self.last_update_count)
        s1 == [self EXCEPT
                 !.is_checking = TRUE,
                 !.check_error = IF po.kind = "notfound" THEN "Command not found"
                                 ELSE @,
                 !.pacman_updates = pacman,
                 !.aur_updates = aur,
                 !.flatpak_updates = flatpak,
                 !.current_update_count = cur,
                 !.last_update_count = cur]
    IN  [ self      |-> AU_Finally(s1),
          requests  |-> AU_PageSwitch(self, isNew),
          logs      |-> {"DEBUG", "INFO"} \cup PacmanLogs(po)
                          \cup (IF self.aur_check_command THEN AurLogs(ao) ELSE {})
                          \cup (IF self.flatpak_check THEN FlatpakLogs(fo) ELSE {})
                          \cup (IF isNew THEN {"WARNING"} ELSE {}),
          activated |-> isNew,
          count     |-> cur,
          failed    |-> AU_Failed(po, ao, fo, SubFailures),
          missing   |-> AU_Failed(po, ao, fo, {"notfound"}),
          result    |-> IF AU_Failed(po, ao, fo, SubFailures) # {}
                        THEN "fail" ELSE "ok" ]

\* _check_updates; po, ao, fo are the outcomes of the three commands
AU_CheckUpdates(self, po, ao, fo) ==
    LET pacman  == SubCount(po)
        aur     == IF self.aur_check_command THEN SubCount(ao) ELSE 0
        flatpak == IF self.flatpak_check THEN SubCount(fo) ELSE 0
        cur     == pacman + aur + flatpak
        isNew   == NewUpdates(cur, self.last_update_count)
        s1 == [self EXCEPT
                 !.is_checking = TRUE,
                 !.check_error = IF po.kind = "notfound" THEN "Command not found"
                                 ELSE "None",
                 !.pacman_updates = pacman,
                 !.aur_updates = aur,
                 !.flatpak_updates = flatpak,
                 !.current_update_count = cur,
                 !.last_update_count = cur]
    IN  [ self      |-> AU_Finally(s1),
          requests  |-> AU_PageSwitch(self, isNew),
          logs      |-> {"DEBUG", "INFO"} \cup PacmanLogs(po)
                          \cup (IF self.aur_check_command THEN AurLogs(ao) ELSE {})
                          \cup (IF self.flatpak_check THEN FlatpakLogs(fo) ELSE {})
                          \cup (IF isNew THEN {"WARNING"} ELSE {}),
          activated |-> isNew,
          count     |-> cur,
          failed    |-> AU_Failed(po, ao, fo, SubFailures),
          missing   |-> AU_Failed(po, ao, fo, {"notfound"}),
          result    |-> IF AU_Failed(po, ao, fo, SubFailures) # {}
                        THEN "fail" ELSE "ok" ]

\* the steps of the try block of _check_updates at which a call to the host
\* is taken to raise: the first log, and the log of the total
RaisePoints == {"begin", "total"}

\* a slip: is_checking is cleared at the end of the try block, not in finally
AU_CheckRaised_NoFinally(self, po, ao, fo, at) ==
    LET pacman  == SubCount(po)
        aur     == IF self.aur_check_command THEN SubCount(ao) ELSE 0
        flatpak == IF self.flatpak_check THEN SubCount(fo) ELSE 0
        cur     == pacman + aur + flatpak
        s1 == IF at = "begin" THEN self
              ELSE [self EXCEPT !.pacman_updates = pacman,
                                !.aur_updates = aur,
                                !.flatpak_updates = flatpak,
                                !.current_update_count = cur]
        s2 == [s1 EXCEPT !.is_checking = TRUE, !.check_error = "Exception"]
    IN  [ self      |-> s2,
          requests  |-> <<>>,
          logs      |-> {"ERROR"},
          activated |-> FALSE,
          count     |-> IF at = "begin" THEN -1 ELSE cur,
          failed    |-> {"check"},
          missing   |-> {},
          result    |-> "fail" ]

\* _check_updates when a step of its try block raises: the except clause logs
\* and sets check_error, finally clears is_checking and renders
AU_CheckRaised(self, po, ao, fo, at) ==
    LET pacman  == SubCount(po)
        aur     == IF self.aur_check_command THEN SubCount(ao) ELSE 0
        flatpak == IF self.flatpak_check THEN SubCount(fo) ELSE 0
        cur     == pacman + aur + flatpak
        s1 == IF at = "begin" THEN self
              ELSE [self EXCEPT !.pacman_updates = pacman,
                                !.aur_updates = aur,
                                !.flatpak_updates = flatpak,
                                !.current_update_count = cur]
        s2 == [s1 EXCEPT !.is_checking = TRUE, !.check_error = "Exception"]
    IN  [ self      |-> AU_Finally(s2),
          requests  |-> <<>>,
          logs      |-> {"ERROR"}
                          \cup (IF at = "begin" THEN {}
                                ELSE {"DEBUG"} \cup PacmanLogs(po)
                                       \cup (IF self.aur_check_command
                                             THEN AurLogs(ao) ELSE {})
                                       \cup (IF self.flatpak_check
                                             THEN FlatpakLogs(fo) ELSE {})),
          activated |-> FALSE,
          count     |-> IF at = "begin" THEN -1 ELSE cur,
          failed    |-> {"check"} \cup AU_Failed(po, ao, fo, SubFailures),
          missing   |-> AU_Failed(po, ao, fo, {"notfound"}),
          result    |-> "fail" ]

AurOutcomes(self) == IF self.aur_check_command THEN SubOutcomes ELSE {NotRun}

FlatpakOutcomes(self) == IF self.flatpak_check THEN SubOutcomes ELSE {NotRun}

\* the outcomes in which the command, if run, gave its count
SubCounted(outcomes) == {o \in outcomes : o.kind \notin SubFailures}

\* the results _check_updates can have, over the outcomes of the commands; a
\* step of the try block raises either at once, or after commands that all
\* gave their counts
AU_Checks(self) ==
    {AU_CheckUpdates(self, po, ao, fo) :
        po \in SubOutcomes, ao \in AurOutcomes(self), fo \in FlatpakOutcomes(self)}
      \cup {AU_CheckRaised(self, NotRun, NotRun, NotRun, "begin")}
      \cup {AU_CheckRaised(self, po, ao, fo, "total") :
               po \in SubCounted(SubOutcomes),
               ao \in SubCounted(AurOutcomes(self)),
               fo \in SubCounted(FlatpakOutcomes(self))}


AU_on_start ==
    /\ plugin = "arch" /\ pc = "constructed"
    /\ op' = "on_start"
    /\ \E c \in AU_Checks(au) :
         /\ pc' = "running"
         /\ au' = c.self
         /\ display' = AU_Display(c.self)
         /\ last' = [Last(c.result, c.count, c.activated, "none",
                          c.requests, {"INFO"} \cup c.logs)
                       EXCEPT !.failed = c.failed, !.missing = c.missing]
         /\ hist' = Hist(c)
    /\ UNCHANGED <<plugin, clock, am>>

AU_update ==
    /\ plugin = "arch" /\ pc = "running"
    /\ op' = "update"
    /\ LET now == clock
           due == ~au.is_checking
                    /\ Due(now, au.last_check_time, au.check_interval)
       IN IF due
          THEN \E c \in AU_Checks(au) :
                 /\ au' = [c.self EXCEPT !.last_check_time = now]
                 /\ display' = AU_Display(c.self)
                 /\ last' = [Last(c.result, c.count, c.activated,
                                  "none", c.requests, c.logs)
                               EXCEPT !.failed = c.failed,
                                      !.missing = c.missing]
                 /\ hist' = Hist(c)
          ELSE /\ last' = NoPoll
               /\ UNCHANGED <<au, display, hist>>
    /\ UNCHANGED <<plugin, pc, clock, am>>

AU_on_button_pressed ==
    /\ plugin = "arch" /\ pc = "running"
    /\ op' = "on_button_pressed"
    /\ \E launch \in {"ok", "fail"} :
         /\ au' = IF launch = "fail" THEN [au EXCEPT !.check_error = "Launch error"]
                  ELSE au
         /\ display' = IF launch = "fail" THEN AU_Display(au') ELSE display
         /\ last' = [NoPoll EXCEPT
                       !.launch = launch,
                       !.logs = {"INFO"} \cup
                                (IF launch = "fail" THEN {"ERROR"} ELSE {})]
    /\ UNCHANGED <<plugin, pc, clock, am, hist>>

AU_on_button_visible ==
    /\ plugin = "arch" /\ pc = "running"
    /\ op' = "on_button_visible"
    /\ display' = AU_Display(au)
    /\ last' = [NoPoll EXCEPT !.logs = {"INFO"}]
    /\ UNCHANGED <<plugin, pc, clock, am, au, hist>>

AU_NoKeys ==
    [ check_interval |-> NoKey, notify_on_updates |-> NoKey,
      notify_duration |-> NoKey, aur_check_command |-> NoKey,
      flatpak_check |-> NoKey ]

\* the new configurations the host sends: no key, one key, or both
\* optional sources switched on
AU_Configs ==
    {[AU_NoKeys EXCEPT !.check_interval = k] : k \in ConfigKey(Intervals)}
      \cup {[AU_NoKeys EXCEPT !.notify_duration = k] : k \in ConfigKey(Intervals)}
      \cup {[AU_NoKeys EXCEPT !.notify_on_updates = k] : k \in ConfigKey(BOOLEAN)}
      \cup {[AU_NoKeys EXCEPT !.aur_check_command = k] : k \in ConfigKey(BOOLEAN)}
      \cup {[AU_NoKeys EXCEPT !.flatpak_check = k] : k \in ConfigKey(BOOLEAN)}
      \cup {[AU_NoKeys EXCEPT !.aur_check_command = [has |-> TRUE, v |-> TRUE],
                              !.flatpak_check = [has |-> TRUE, v |-> TRUE]]}

\* a slip: the notify_duration key is not read
AU_Reconfigure_KeepDuration(self, config) ==
    [self EXCEPT
       !.check_interval    = ConfigGet(config.check_interval, self.check_interval),
       !.notify_on_updates = ConfigGet(config.notify_on_updates,
                                       self.notify_on_updates),
       !.aur_check_command = ConfigGet(config.aur_check_command,
                                       self.aur_check_command),
       !.flatpak_check     = ConfigGet(config.flatpak_check, self.flatpak_check)]

AU_Reconfigure(self, config) ==
    [self EXCEPT
       !.check_interval    = ConfigGet(config.check_interval, self.check_interval),
       !.notify_on_updates = ConfigGet(config.notify_on_updates,
                                       self.notify_on_updates),
       !.notify_duration   = ConfigGet(config.notify_duration,
                                       self.notify_duration),
       !.aur_check_command = ConfigGet(config.aur_check_command,
                                       self.aur_check_command),
       !.flatpak_check     = ConfigGet(config.flatpak_check, self.flatpak_check)]

AU_on_config_update ==
    /\ plugin = "arch" /\ pc = "running"
    /\ op' = "on_config_update"
    /\ hist.reconfigs < MaxReconfig
    /\ \E config \in AU_Configs :
       \E s0 \in {AU_Reconfigure(au, config)} :
       \E c \in AU_Checks(s0) :
         /\ au' = c.self
         /\ display' = AU_Display(c.self)
         /\ last' = [Last(c.result, c.count, c.activated,
                          "none", c.requests, {"INFO"} \cup c.logs)
                       EXCEPT !.config = <<config>>,
                              !.failed = c.failed, !.missing = c.missing]
         /\ hist' = Reconfigured(Hist(c))
    /\ UNCHANGED <<plugin, pc, clock, am>>

-----------------------------------------------------------------------------
(* Specification *)

Init ==
    /\ plugin \in {"alert", "arch"}
    /\ pc = "constructed"
    /\ clock = Epoch
    \* the AlertManager plugin is constructed with bearer authentication
    /\ am \in IF plugin = "alert"
              THEN {AM_Authenticated(AM_Construct(pi, fd)) :
                       pi \in Intervals, fd \in Intervals}
              ELSE {AM_Init}
    /\ au \in IF plugin = "arch"
              THEN {AU_Construct(ci, nd) : ci \in Intervals, nd \in Intervals}
              ELSE {AU_Init}
    /\ display = [view |-> "blank", count |-> 0, bg |-> ""]
    /\ op = "init"
    /\ last = NoPoll
    /\ hist = [good |-> -1, failing |-> FALSE, reconfigs |-> 0]

\* time passes between two callbacks
AdvanceClock ==
    /\ clock < MaxTime
    /\ clock' = clock + 1
    /\ op' = "time"
    /\ last' = NoPoll
    /\ UNCHANGED <<plugin, pc, am, au, display, hist>>

Next ==
    \/ AdvanceClock
    \/ AM_on_start
    \/ AM_update
    \/ AM_on_button_pressed
    \/ AM_on_button_visible
    \/ AM_on_config_update
    \/ AU_on_start
    \/ AU_update
    \/ AU_on_button_pressed
    \/ AU_on_button_visible
    \/ AU_on_config_update

Spec == Init /\ [][Next]_vars

\* Time without a horizon: once the clock shows MaxTime, a further second is
\* modelled by moving every stored timestamp one second back instead.  A
\* timestamp that reaches 0 is older than every interval (MaxTime exceeds
\* MaxInterval), as it stays when it is held there.
Rebase ==
    /\ clock = MaxTime
    /\ op' = "time"
    /\ am' = [am EXCEPT !.last_poll_time = Max(0, @ - 1),
                        !.flash_start_time = Max(0, @ - 1)]
    /\ au' = [au EXCEPT !.last_check_time = Max(0, @ - 1)]
    /\ last' = NoPoll
    /\ UNCHANGED <<plugin, pc, clock, display, hist>>

\* The periodic loop: start, ticks, presses and visibility changes, with time
\* running on.  Configuration updates are left to Spec.
LiveNext ==
    \/ AdvanceClock
    \/ Rebase
    \/ AM_on_start
    \/ AM_update
    \/ AM_on_button_pressed
    \/ AM_on_button_visible
    \/ AU_on_start
    \/ AU_update
    \/ AU_on_button_pressed
    \/ AU_on_button_visible

\* The host starts the plugin, calls update() from its main loop for ever, and
\* time passes.
LiveSpec ==
    /\ Init /\ [][LiveNext]_vars
    /\ WF_vars(AdvanceClock \/ Rebase)
    /\ WF_vars(AM_on_start) /\ WF_vars(AU_on_start)
    /\ WF_vars(AM_update) /\ WF_vars(AU_update)

\* The AlertManager plugin in the states it renders from: started and not yet
\* polled, or with a count of up to MaxShown alerts from its last poll, in or
\* out of a flash and in either phase of it.
RenderStates ==
    {[AM_Init EXCEPT !.current_alert_count = c, !.last_alert_count = c,
                     !.last_poll_time = IF polled THEN Epoch ELSE 0,
                     !.is_flashing = f, !.flash_state = g,
                     !.flash_start_time = IF f THEN Epoch ELSE 0] :
        c \in 0..MaxShown, polled \in BOOLEAN, f \in BOOLEAN, g \in BOOLEAN}

RenderInit ==
    /\ plugin = "alert"
    /\ pc = "running"
    /\ clock = Epoch
    /\ am \in {a \in RenderStates :
                 a.last_poll_time = 0 =>
                    (a.current_alert_count = 0 /\ ~a.is_flashing /\ ~a.flash_state)}
    /\ au = AU_Init
    /\ display = [view |-> "blank", count |-> 0, bg |-> ""]
    /\ op = "init"
    /\ last = NoPoll
    /\ hist = [good |-> IF am.last_poll_time = 0 THEN -1
                        ELSE am.current_alert_count,
               failing |-> FALSE, reconfigs |-> 0]

RenderNext ==
    \/ AdvanceClock
    \/ AM_update
    \/ AM_on_button_pressed
    \/ AM_on_button_visible

RenderSpec == RenderInit /\ [][RenderNext]_vars

-----------------------------------------------------------------------------
(* Properties *)

\* the counts of the running plugin, and what a render would push now
PrevCount ==
    IF plugin = "alert" THEN am.last_alert_count ELSE au.last_update_count

CurCount ==
    IF plugin = "alert" THEN am.current_alert_count ELSE au.current_update_count

Rendering == IF plugin = "alert" THEN AM_Display(am) ELSE AU_Display(au)

\* a count has been stored by an earlier poll that went through
PrevSet == hist.good >= 0

\* C1: a poll that succeeds activates attention if and only if its count is
\* greater than the previous count and a previous count had been set by an
\* earlier successful poll (so also on a rise from 0).
C1_AttentionIffIncrease ==
    [][last'.result = "ok" =>
         (last'.activated <=> (PrevSet /\ last'.count > PrevCount))]_vars

\* C2: after a successful poll previousCount equals currentCount, which is the
\* count that poll obtained, also when attention was activated.
C2_PreviousEqualsCurrent ==
    last.result = "ok" => (PrevCount = CurCount /\ CurCount = last.count)

C2_Witness ==
    /\ last.result = "ok" /\ last.activated
    /\ PrevCount = CurCount /\ CurCount = last.count

\* C3: a poll that fails leaves currentCount and previousCount as they were
\* before the poll, in both plugins and for every sub-source.
C3_FailedPollKeepsCounts ==
    [][last'.result = "fail" =>
         (CurCount' = CurCount /\ PrevCount' = PrevCount)]_vars

\* C4: a tick made while flashing clears flashing if and only if
\* now - flashStartedAt >= flashDuration, now being the tick's reading of the
\* clock; and flashing is cleared by nothing else than such a tick or a
\* button press.
C4_Elapsed == clock - am'.flash_start_time

C4_FlashClearsExactlyOnExpiry ==
    [][plugin = "alert" =>
         /\ (op' = "update" /\ (am.is_flashing \/ last'.activated))
              => (~am'.is_flashing <=> C4_Elapsed >= am'.flash_duration)
         /\ (am.is_flashing /\ ~am'.is_flashing)
              => \/ op' = "on_button_pressed"
                 \/ op' = "update" /\ C4_Elapsed >= am'.flash_duration]_vars

\* the tick that found the flash expired (it logs so at INFO) has cleared it
C4_Witness ==
    /\ plugin = "alert" /\ op = "update" /\ "INFO" \in last.logs
    /\ ~am.is_flashing /\ am.flash_start_time > 0

\* C5: after any button press flashing is false, whatever the outcome of the
\* launch (and so a press while not flashing leaves it false).
C5_PressClearsFlashing ==
    [][(plugin = "alert" /\ op' = "on_button_pressed")
         => ~am'.is_flashing]_vars

\* C6: after any tick the rendering last pushed to the host is the rendering of
\* the current state.
C6_TickRenders == op = "update" => display = Rendering

\* C7: a poll that fails logs at error level and the next rendering is the
\* "Error" view.
C7_FailureShowsError ==
    last.result = "fail" => ("ERROR" \in last.logs /\ Rendering.view = "error")

\* C8: the first successful poll after a streak of failed polls activates
\* attention if and only if its count exceeds the count of the last successful
\* poll before the streak.
C8_RecoveryComparesLastGood ==
    [][(last'.result = "ok" /\ hist.failing /\ hist.good >= 0) =>
         (last'.activated <=> last'.count > hist.good)]_vars

\* C9: under repeated ticks with advancing time a tick polls the source again
\* and again, whatever the earlier polls and launches did (every callback is a
\* total action: it is enabled for every outcome of the source and of the
\* launch); the is_checking guard never blocks polling for good.
C9_PollsForever == []<>(op = "update" /\ last.result # "none")

\* a tick polled again, later than the first poll, and that poll failed
C9_Witness ==
    /\ op = "update" /\ last.result = "fail"
    /\ (IF plugin = "alert" THEN am.last_poll_time ELSE au.last_check_time) > Epoch

\* C10: a callback sends the host exactly one page-switch request, for the
\* configured flash (notify) duration, when its poll activated attention (and,
\* in the update plugin, notify_on_updates is on), and none otherwise.
C10_Duration ==
    IF plugin = "alert" THEN am.flash_duration ELSE au.notify_duration

C10_OneRequestPerActivation ==
    last.requests =
        IF last.activated /\ (plugin = "arch" => au.notify_on_updates)
        THEN <<C10_Duration>> ELSE <<>>

C10_Witness ==
    /\ last.activated /\ last.requests = <<C10_Duration>>

\* C11: a tick made while flashing, and leaving it flashing, toggles flash_state
\* and pushes a view other than the view of the state it began in (which is
\* the view the tick before it pushed): NEW! and the count view alternate.
C11_FlashAlternates ==
    [][(plugin = "alert" /\ op' = "update" /\ am.is_flashing /\ am'.is_flashing)
         => /\ am'.flash_state = ~am.flash_state
            /\ display'.view # AM_Display(am).view]_vars

\* the contributions of the three sources, and those that are not zero
C12_Contributions ==
    << <<"P", au.pacman_updates>>, <<"A", au.aur_updates>>,
       <<"F", au.flatpak_updates>> >>

C12_IsNonZero(part) == part[2] > 0

C12_NonZero == SelectSeq(C12_Contributions, C12_IsNonZero)

C12_Sum == au.pacman_updates + au.aur_updates + au.flatpak_updates

\* the last callback made a check that completed: it ran to the end of its
\* try block, no step of it raising
C12_Completed ==
    plugin = "arch" /\ last.result # "none" /\ "check" \notin last.failed

\* C12 as stated: after every update check that completes the total is the sum
\* of the three contributions and the breakdown of the rendering lists exactly
\* the sources whose contribution is not zero.
C12_BreakdownListsNonZero ==
    C12_Completed
      => (au.current_update_count = C12_Sum /\ display.parts = C12_NonZero)

\* C12 amended: after every update check that completes the total is the sum
\* of the three contributions (a source switched off contributing 0); the
\* rendering has a breakdown only when it is the count view and at least two
\* contributions are not zero, and the breakdown then lists exactly those.
C12_BreakdownWhenSeveral ==
    C12_Completed
      => /\ au.current_update_count = C12_Sum
         /\ ~au.aur_check_command => au.aur_updates = 0
         /\ ~au.flatpak_check => au.flatpak_updates = 0
         /\ display.parts = IF display.view = "count" /\ Len(C12_NonZero) > 1
                            THEN C12_NonZero ELSE <<>>

\* a check with all three sources on counted 1, 1 and 0
C12_Witness ==
    /\ plugin = "arch" /\ last.result = "ok"
    /\ au.aur_check_command /\ au.flatpak_check
    /\ au.current_update_count = 2 /\ au.flatpak_updates = 0
    /\ display.parts = << <<"P", 1>>, <<"A", 1>> >>

\* C13: when on_start returns a poll of the source has been made and the
\* rendering pushed to the host is that of the state it left; and a tick that
\* follows on_start before any time has passed (so before the poll interval
\* has elapsed) does not poll again.
C13_StartPollsOnce ==
    [][/\ op' = "on_start" => (last'.result # "none" /\ display' = Rendering')
       /\ (op = "on_start" /\ op' = "update") => last'.result = "none"]_vars

\* the configuration the last on_config_update was given
C14_Config == last'.config[1]

\* the fields after on_config_update: the value of each key that is present,
\* the value from before for each key that is missing
C14_FieldsSet ==
    IF plugin = "alert"
    THEN /\ am'.poll_interval =
              ConfigGet(C14_Config.poll_interval, am.poll_interval)
         /\ am'.flash_duration =
              ConfigGet(C14_Config.flash_duration, am.flash_duration)
    ELSE /\ au'.check_interval =
              ConfigGet(C14_Config.check_interval, au.check_interval)
         /\ au'.notify_duration =
              ConfigGet(C14_Config.notify_duration, au.notify_duration)
         /\ au'.notify_on_updates =
              ConfigGet(C14_Config.notify_on_updates, au.notify_on_updates)
         /\ au'.aur_check_command =
              ConfigGet(C14_Config.aur_check_command, au.aur_check_command)
         /\ au'.flatpak_check =
              ConfigGet(C14_Config.flatpak_check, au.flatpak_check)

\* the attention rule of the polls made by update
C14_Rule ==
    IF plugin = "alert" THEN NewAlerts(last'.count, am.last_alert_count)
    ELSE NewUpdates(last'.count, au.last_update_count)

\* C14: on_config_update sets the fields from the new configuration, then
\* polls and renders: the poll is made, it activates attention by the rule of
\* the tick-driven polls, stores its count as the previous count, requests
\* the page switch for the duration just configured, and the rendering pushed
\* is that of the state the callback leaves.
C14_ConfigUpdateRepolls ==
    [][op' = "on_config_update" =>
         /\ C14_FieldsSet
         /\ last'.result # "none"
         /\ display' = Rendering'
         /\ last'.result = "ok" =>
               /\ last'.activated <=> C14_Rule
               /\ PrevCount' = last'.count /\ CurCount' = last'.count
         /\ last'.requests =
               IF last'.activated /\ (plugin = "arch" => au'.notify_on_updates)
               THEN << IF plugin = "alert" THEN am'.flash_duration
                                           ELSE au'.notify_duration >>
               ELSE <<>>]_vars

\* a configuration update set notify_duration to 2 and its check found new
\* updates: the page switch was requested for 2
C14_Witness ==
    /\ plugin = "arch" /\ op = "on_config_update" /\ last.activated
    /\ last.config[1].notify_duration = [has |-> TRUE, v |-> 2]
    /\ last.requests = <<2>> /\ display = Rendering

\* C15: in every reachable state currentCount is >= 0 and previousCount is
\* >= 0 or the value for "not set" that it has after __init__ (-1 in the update
\* plugin; the AlertManager plugin starts it at 0); and once previousCount
\* is >= 0 in the update plugin no step makes it negative again.
C15_CountsNeverNegative ==
    /\ [](CurCount >= 0 /\ (PrevCount >= 0 \/ (plugin = "arch" /\ PrevCount = -1)))
    /\ [][PrevCount >= 0 => PrevCount' >= 0]_vars

\* the first check of the update plugin failed and still set previousCount
C15_Witness ==
    /\ plugin = "arch" /\ op = "on_start" /\ last.result = "fail"
    /\ PrevCount >= 0 /\ CurCount >= 0

\* C16: a check in which the command of an optional source (AUR helper,
\* Flatpak) is not found, and nothing else fails, logs at warning level and
\* not at error level, does not render the error view, counts 0 for the
\* missing source and sums the other sources as usual.
C16_MissingOptionalDegrades ==
    (/\ plugin = "arch" /\ last.result # "none"
     /\ last.missing # {} /\ last.missing \subseteq {"aur", "flatpak"}
     /\ last.failed = last.missing)
      => /\ "WARNING" \in last.logs /\ "ERROR" \notin last.logs
         /\ display.view # "error"
         /\ "aur" \in last.missing => au.aur_updates = 0
         /\ "flatpak" \in last.missing => au.flatpak_updates = 0
         /\ au.current_update_count = C12_Sum

C18_PollKeepsFlash ==
    [][(/\ plugin = "alert" /\ am.is_flashing /\ last'.result # "none"
        /\ (last'.result = "fail" \/ last'.count <= am.last_alert_count))
         => /\ am'.flash_start_time = am.flash_start_time
            /\ op' = "on_config_update" =>
                  (am'.is_flashing /\ am'.flash_state = am.flash_state)
            /\ op' = "update" =>
                  /\ am'.flash_state = ~am.flash_state
                  /\ am'.is_flashing <=>
                        clock - am.flash_start_time < am.flash_duration]_vars

\* a poll failed during a flash, and the flash goes on
C18_Witness ==
    /\ plugin = "alert" /\ last.flashing /\ last.result = "fail"
    /\ am.is_flashing

\* the time of the last tick that polled, and the configured interval
C19_LastPollAt ==
    IF plugin = "alert" THEN am.last_poll_time ELSE au.last_check_time

C19_Interval ==
    IF plugin = "alert" THEN am.poll_interval ELSE au.check_interval

\* C19: a tick polls if and only if its reading of the clock is at least the
\* interval past the time of the last polling tick, and then stores its
\* reading as that time, whether the poll succeeded or failed; a tick that
\* does not poll, and every other callback (on_start and on_config_update
\* with their polls included), leaves the stored time alone.
C19_TickPollsWhenDue ==
    [][/\ op' = "update" =>
            /\ last'.result # "none" <=> clock - C19_LastPollAt >= C19_Interval
            /\ C19_LastPollAt' =
                  IF last'.result # "none" THEN clock ELSE C19_LastPollAt
       /\ op' # "update" => C19_LastPollAt' = C19_LastPollAt]_vars

\* with the longest interval, the second polling tick came one interval after
\* the first, and its poll failed
C19_Witness ==
    /\ op = "update" /\ last.result = "fail"
    /\ C19_Interval = MaxInterval
    /\ C19_LastPollAt = Epoch + MaxInterval

\* C20: a button press whose launch fails logs at error level, pushes the
\* error view to the host, and leaves currentCount and previousCount as they
\* were.
C20_LaunchFailureShowsError ==
    [][(op' = "on_button_pressed" /\ last'.launch = "fail")
         => /\ "ERROR" \in last'.logs
            /\ display'.view = "error"
            /\ CurCount' = CurCount /\ PrevCount' = PrevCount]_vars

\* the background by count: green for 0, orange for 1 to 4, orange-red from 5
C21_Background(n) ==
    IF n = 0 THEN "#2E7D32" ELSE IF n <= 4 THEN "#FFA500" ELSE "#FF4500"

\* the view of a state: red NEW! in the lit phase of a flash, else the count
C21_View(self) ==
    IF self.is_flashing /\ self.flash_state
    THEN [view |-> "new", count |-> 0, bg |-> "#FF0000"]
    ELSE [view |-> "count", count |-> self.current_alert_count,
          bg |-> C21_Background(self.current_alert_count)]

\* C21: whatever the alert plugin pushes to the host is the view of the state
\* it is in then: NEW! on red exactly when is_flashing and flash_state are both
\* true, else "<currentCount> alerts" on green, orange or orange-red by count,
\* never on red; and the first poll (no count stored before) that finds alerts
\* activates no attention and leaves a state whose view is that count, not red.
C21_RenderingOfState ==
    [][/\ (op' = "on_button_visible" \/ display' # display)
            => display' = C21_View(am')
       /\ (hist.good = -1 /\ last'.result = "ok" /\ last'.count > 0)
            => /\ ~last'.activated
               /\ C21_View(am').view = "count"
               /\ C21_View(am').count = last'.count
               /\ C21_View(am').bg # "#FF0000"]_vars

\* five alerts were pushed on orange-red
C21_Witness ==
    /\ op = "on_button_visible"
    /\ display = [view |-> "count", count |-> 5, bg |-> "#FF4500"]

\* C22: in the update plugin is_checking is false after every callback, also
\* after a check that took its except clause; no rendering pushed to the host
\* is the "Checking..." view; and a tick whose interval has elapsed polls.
C22_NeverLeftChecking ==
    /\ [](plugin = "arch" => (~au.is_checking /\ display.view # "checking"))
    /\ [][(plugin = "arch" /\ op' = "update"
             /\ clock - au.last_check_time >= au.check_interval)
            => last'.result # "none"]_vars

\* a tick's check raised inside its try block: the flag is down again and the
\* error view was pushed
C22_Witness ==
    /\ plugin = "arch" /\ op = "update" /\ "check" \in last.failed
    /\ ~au.is_checking /\ display.view = "error"

\* C23: in the update plugin a check in which nothing failed leaves check_error
\* unset and pushes the count view, whatever check_error held before it; while
\* check_error is set the host shows the error view; and a "Launch error" set
\* by a failed press stays through every callback that makes no check.
C23_ErrorClearedByCheck ==
    /\ []((plugin = "arch" /\ au.check_error # "None") => display.view = "error")
    /\ [][plugin = "arch" =>
             /\ last'.result = "ok"
                  => (au'.check_error = "None" /\ display'.view = "count")
             /\ (au.check_error = "Launch error" /\ last'.result = "none"
                   /\ op' # "time")
                  => au'.check_error = "Launch error"]_vars

\* a launch had failed, and a tick that made no check left the error showing
C23_Witness ==
    /\ plugin = "arch" /\ op = "update" /\ last.result = "none"
    /\ au.check_error = "Launch error" /\ display.view = "error"

\* C24: on_config_update leaves every field whose key the new configuration
\* lacks at the value it had, the authentication fields of the AlertManager
\* plugin included; and when its poll fails in the AlertManager plugin the
\* counts and the flashing state are as before.
C24_AbsentKeysKept ==
    [][op' = "on_config_update" =>
         IF plugin = "alert"
         THEN /\ ~C14_Config.poll_interval.has
                   => am'.poll_interval = am.poll_interval
              /\ ~C14_Config.flash_duration.has
                   => am'.flash_duration = am.flash_duration
              /\ ~C14_Config.auth_type.has => am'.auth_type = am.auth_type
              /\ ~C14_Config.bearer_token.has
                   => am'.bearer_token = am.bearer_token
              /\ last'.result = "fail" =>
                   /\ am'.current_alert_count = am.current_alert_count
                   /\ am'.last_alert_count = am.last_alert_count
                   /\ am'.is_flashing = am.is_flashing
                   /\ am'.flash_state = am.flash_state
                   /\ am'.flash_start_time = am.flash_start_time
         ELSE /\ ~C14_Config.check_interval.has
                   => au'.check_interval = au.check_interval
              /\ ~C14_Config.notify_duration.has
                   => au'.notify_duration = au.notify_duration
              /\ ~C14_Config.notify_on_updates.has
                   => au'.notify_on_updates = au.notify_on_updates
              /\ ~C14_Config.aur_check_command.has
                   => au'.aur_check_command = au.aur_check_command
              /\ ~C14_Config.flatpak_check.has
                   => au'.flatpak_check = au.flatpak_check]_vars
====
